---------------------------- MODULE Spec2Model ----------------------------
(***************************************************************************)
(* Subdomain routing layer (src/src/lib.rs): SubdomainLayer, the builder   *)
(* whose register / strict / known_hosts calls produce a configuration,    *)
(* Layer::layer, which hands that configuration to a SubdomainService, and *)
(* SubdomainService::call, which reads the Host header, extracts a         *)
(* subdomain key and forwards the request to a registered router, to the   *)
(* inner (fallback) service, or answers 404 itself.                        *)
(*                                                                         *)
(* A string is a sequence of one-character strings, so that ends_with,     *)
(* byte indexing, the regular expression and split('.') are computed on    *)
(* characters as the code computes them.                                   *)
(***************************************************************************)
EXTENDS Integers, Sequences, FiniteSets, TLC

-----------------------------------------------------------------------------
(* Option<T> *)

None == [some |-> FALSE, val |-> <<>>]

Some(x) == [some |-> TRUE, val |-> x]

-----------------------------------------------------------------------------
(* Characters *)

Digits == <<"0", "1", "2", "3", "4", "5", "6", "7", "8", "9">>

\* \d of the regex, on the visible ASCII text HeaderValue::to_str lets through
IsDigit(c) == \E n \in 1..Len(Digits) : Digits[n] = c

Letters ==
  { "a","b","c","d","e","f","g","h","i","j","k","l","m",
    "n","o","p","q","r","s","t","u","v","w","x","y","z",
    "A","B","C","D","E","F","G","H","I","J","K","L","M",
    "N","O","P","Q","R","S","T","U","V","W","X","Y","Z" }

\* const KNOWN_TLDS
KNOWN_TLDS ==
  {
    <<"c","o","m">>, <<"n","e","t">>, <<"o","r","g">>, <<"t","r">>, <<"e","d","u">>,
    <<"g","o","v">>, <<"i","o">>, <<"d","e","v">>, <<"c","o">>, <<"u","k">>,
    <<"i","n","f","o">>, <<"b","i","z">>, <<"m","i","l">>, <<"i","n","t">>,
    <<"a","r","p","a">>, <<"n","a","m","e">>, <<"p","r","o">>, <<"a","e","r","o">>,
    <<"c","o","o","p">>, <<"m","u","s","e","u","m">>, <<"m","o","b","i">>,
    <<"a","s","i","a">>, <<"t","e","l">>, <<"c","a","t">>, <<"j","o","b","s">>,
    <<"t","r","a","v","e","l">>, <<"u","s">>, <<"c","a">>, <<"d","e">>, <<"f","r">>,
    <<"a","u">>, <<"j","p">>, <<"c","n">>, <<"r","u">>, <<"b","r">>, <<"i","t">>,
    <<"e","s">>, <<"n","l">>, <<"s","e">>, <<"n","o">>, <<"f","i">>, <<"d","k">>,
    <<"p","l">>, <<"c","h">>, <<"b","e">>, <<"a","t">>
  }

-----------------------------------------------------------------------------
(* String helpers of the standard library, as the code uses them *)

\* str::ends_with
EndsWith(s, suffix) ==
  /\ Len(suffix) <= Len(s)
  /\ SubSeq(s, Len(s) - Len(suffix) + 1, Len(s)) = suffix

\* index of the first occurrence of character c in s at or after i, 0 if none
RECURSIVE IndexFrom(_, _, _)
IndexFrom(s, c, i) ==
  IF i > Len(s) THEN 0
  ELSE IF s[i] = c THEN i
  ELSE IndexFrom(s, c, i + 1)

\* str::split(c).collect(): the pieces between separators, empty pieces kept;
\* a string without a separator (the empty string too) is one piece
RECURSIVE Split(_, _)
Split(s, c) ==
  LET k == IndexFrom(s, c, 1)
  IN  IF k = 0 THEN << s >>
      ELSE << SubSeq(s, 1, k - 1) >> \o Split(SubSeq(s, k + 1, Len(s)), c)

\* [&str]::join(sep)
RECURSIVE Join(_, _)
Join(parts, sep) ==
  IF Len(parts) = 0 THEN << >>
  ELSE IF Len(parts) = 1 THEN parts[1]
  ELSE parts[1] \o sep \o Join(Tail(parts), sep)

-----------------------------------------------------------------------------
(* IP_REGEX = (\d+)\.(\d+)\.(\d+)\.(\d+) and replace_all(.., "$1_$2_$3_$4") *)

\* first index at or after i that holds no digit (Len(s) + 1 at the end)
RECURSIVE DigitRunEnd(_, _)
DigitRunEnd(s, i) ==
  IF i <= Len(s) /\ IsDigit(s[i]) THEN DigitRunEnd(s, i + 1) ELSE i

\* The ends (the index after each) of n digit runs separated by '.', the first
\* starting at index i; << >> when s does not continue that way.  Every \d+ is
\* greedy and all but the last must be followed by a '.', so each group is
\* the whole digit run from its start.
RECURSIVE GroupEnds(_, _, _)
GroupEnds(s, i, n) ==
  IF DigitRunEnd(s, i) = i THEN << >>
  ELSE IF n = 1 THEN << DigitRunEnd(s, i) >>
  ELSE IF DigitRunEnd(s, i) > Len(s) \/ s[DigitRunEnd(s, i)] # "." THEN << >>
  ELSE IF GroupEnds(s, DigitRunEnd(s, i) + 1, n - 1) = << >> THEN << >>
  ELSE << DigitRunEnd(s, i) >> \o GroupEnds(s, DigitRunEnd(s, i) + 1, n - 1)

\* the captures of a match that starts at i and whose groups end at ends:
\* caps[n + 1] is capture group n
Captures(s, i, ends) ==
  << SubSeq(s, i, ends[4] - 1), SubSeq(s, i, ends[1] - 1),
     SubSeq(s, ends[1] + 1, ends[2] - 1), SubSeq(s, ends[2] + 1, ends[3] - 1),
     SubSeq(s, ends[3] + 1, ends[4] - 1) >>

\* The match of IP_REGEX that starts at index i, if any: its captures and the
\* index after it.
IP_REGEX(s, i) ==
  IF GroupEnds(s, i, 4) = << >>
  THEN [matched |-> FALSE, end |-> i, caps |-> << >>]
  ELSE [matched |-> TRUE, end |-> GroupEnds(s, i, 4)[4],
        caps |-> Captures(s, i, GroupEnds(s, i, 4))]

\* the replacement template of line 141
IpReplacement == << "$","1","_","$","2","_","$","3","_","$","4" >>

\* A character that may belong to a capture reference's name.
IsCapLetter(c) == IsDigit(c) \/ c \in Letters \/ c = "_"

\* first index at or after i of rep that cannot belong to a reference's name:
\* a $name reference takes the longest possible name
RECURSIVE CapNameEnd(_, _)
CapNameEnd(rep, i) ==
  IF i <= Len(rep) /\ IsCapLetter(rep[i]) THEN CapNameEnd(rep, i + 1) ELSE i

\* the value of a digit character
DigitValue(c) == (CHOOSE n \in 1..Len(Digits) : Digits[n] = c) - 1

\* str::parse::<usize> of a string of digits
RECURSIVE ParseUsize(_)
ParseUsize(name) ==
  IF Len(name) = 0 THEN 0
  ELSE ParseUsize(SubSeq(name, 1, Len(name) - 1)) * 10
         + DigitValue(name[Len(name)])

\* The text a reference stands for: a name that parses as a number is a group
\* index, any other name is a named group; IP_REGEX has no named group, and a
\* reference to a group that does not exist expands to the empty string.
CapValue(name, caps) ==
  IF \A i \in 1..Len(name) : IsDigit(name[i])
  THEN IF ParseUsize(name) + 1 <= Len(caps)
       THEN caps[ParseUsize(name) + 1]
       ELSE << >>
  ELSE << >>

\* Captures::expand on a template of literal text and $name references (the
\* template of line 141 has no ${name} and no $$)
RECURSIVE Expand(_, _, _)
Expand(rep, caps, i) ==
  IF i > Len(rep) THEN << >>
  ELSE IF rep[i] # "$" THEN << rep[i] >> \o Expand(rep, caps, i + 1)
  ELSE IF CapNameEnd(rep, i + 1) = i + 1
  THEN << "$" >> \o Expand(rep, caps, i + 1)
  ELSE CapValue(SubSeq(rep, i + 1, CapNameEnd(rep, i + 1) - 1), caps)
         \o Expand(rep, caps, CapNameEnd(rep, i + 1))

\* Regex::replace_all: the leftmost match, then the leftmost match after it,
\* and so on; text between matches is copied
RECURSIVE ReplaceAll(_, _)
ReplaceAll(s, i) ==
  IF i > Len(s) THEN << >>
  ELSE IF IP_REGEX(s, i).matched
  THEN Expand(IpReplacement, IP_REGEX(s, i).caps, 1)
         \o ReplaceAll(s, IP_REGEX(s, i).end)
  ELSE << s[i] >> \o ReplaceAll(s, i + 1)

-----------------------------------------------------------------------------
(* Subdomain extraction: the body of the future built by call, lines 126-159 *)

\* KnownHostsLoop with the break of line 135 taken as soon as the host ends
\* with a known host, whether or not a '.' precedes it
RECURSIVE KnownHostsLoopBreaksEarly(_, _, _)
KnownHostsLoopBreaksEarly(host, known_hosts, i) ==
  IF i > Len(known_hosts) THEN None
  ELSE IF EndsWith(host, known_hosts[i])
  THEN IF /\ Len(host) - Len(known_hosts[i]) > 0
          /\ host[Len(host) - Len(known_hosts[i])] = "."
       THEN Some(SubSeq(host, 1, Len(host) - Len(known_hosts[i]) - 1))
       ELSE None
  ELSE KnownHostsLoopBreaksEarly(host, known_hosts, i + 1)

\* "Try known hosts" (lines 130-138), from the i-th known host on: the first
\* known host the host ends with, behind a '.', decides; the others are skipped
RECURSIVE KnownHostsLoop(_, _, _)
KnownHostsLoop(host, known_hosts, i) ==
  IF i > Len(known_hosts) THEN None
  ELSE IF /\ EndsWith(host, known_hosts[i])
          /\ Len(host) - Len(known_hosts[i]) > 0
          /\ host[Len(host) - Len(known_hosts[i])] = "."
  THEN Some(SubSeq(host, 1, Len(host) - Len(known_hosts[i]) - 1))
  ELSE KnownHostsLoop(host, known_hosts, i + 1)

\* PopTld popping a second known TLD behind the first
PopTldTwice(parts) ==
  IF parts[Len(parts)] \in KNOWN_TLDS
  THEN IF Len(parts) > 1 /\ parts[Len(parts) - 1] \in KNOWN_TLDS
       THEN SubSeq(parts, 1, Len(parts) - 2)
       ELSE SubSeq(parts, 1, Len(parts) - 1)
  ELSE parts

\* lines 144-148: the last part is popped when it is a known TLD
PopTld(parts) ==
  IF parts[Len(parts)] \in KNOWN_TLDS
  THEN SubSeq(parts, 1, Len(parts) - 1)
  ELSE parts

\* lines 149-157: with more than one part left, all but the last, joined
JoinSubdomain(parts) ==
  IF Len(parts) > 1
  THEN Some(Join(SubSeq(parts, 1, Len(parts) - 1), << "." >>))
  ELSE None

\* lines 141-158: the extraction that runs when no known host matched (split
\* always yields at least one part)
GenericExtraction(host) ==
  JoinSubdomain(PopTld(Split(ReplaceAll(host, 1), ".")))

\* OrGeneric with the generic extraction run first and preferred
GenericFirst(target_subdomain, host) ==
  IF GenericExtraction(host).some
  THEN GenericExtraction(host)
  ELSE target_subdomain

\* line 140: the generic extraction runs only when no known host matched
OrGeneric(target_subdomain, host) ==
  IF target_subdomain.some THEN target_subdomain ELSE GenericExtraction(host)

\* lines 127-159: target_subdomain once both steps have run
TargetSubdomain(host, known_hosts) ==
  OrGeneric(KnownHostsLoop(host, known_hosts, 1), host)

-----------------------------------------------------------------------------
(* The Host header and the dispatch decision *)

\* A request's Host header: absent, present with bytes to_str refuses, or text.
AbsentHeader == [kind |-> "absent", text |-> << >>]

OpaqueHeader == [kind |-> "opaque", text |-> << >>]

TextHeader(s) == [kind |-> "text", text |-> s]

\* lines 119-123: headers().get("host"), to_str().ok(), text before the first ':'
HostOf(header) ==
  IF header.kind # "text" THEN None
  ELSE IF IndexFrom(header.text, ":", 1) = 0 THEN Some(header.text)
  ELSE Some(SubSeq(header.text, 1, IndexFrom(header.text, ":", 1) - 1))

\* the fallback service the layer wraps
inner == "inner"

NotFound == [status |-> 404, body |-> << >>]

\* What a handler (a registered router or inner) answers to a forwarded
\* request: opaque to the layer, told apart by the handler that made it.
HandlerResponse(handler) == [status |-> 200, body |-> << handler >>]

\* Decide with the strict branch taken for an absent subdomain too
DecideRejectsAbsent(target_subdomain, routes, strict) ==
  IF target_subdomain.some /\ target_subdomain.val \in DOMAIN routes
  THEN [outcome |-> "Dispatched",
        invoked |-> << routes[target_subdomain.val] >>,
        target_subdomain |-> target_subdomain]
  ELSE IF strict
  THEN [outcome |-> "Rejected", invoked |-> << >>,
        target_subdomain |-> target_subdomain]
  ELSE [outcome |-> "Fallback", invoked |-> << inner >>,
        target_subdomain |-> target_subdomain]

\* Decide without the strict branch
DecideIgnoresStrict(target_subdomain, routes, strict) ==
  IF target_subdomain.some /\ target_subdomain.val \in DOMAIN routes
  THEN [outcome |-> "Dispatched",
        invoked |-> << routes[target_subdomain.val] >>,
        target_subdomain |-> target_subdomain]
  ELSE [outcome |-> "Fallback", invoked |-> << inner >>,
        target_subdomain |-> target_subdomain]

\* the keys the subdomain is a dot-separated tail of, or that are one of it
TailKeys(subdomain, routes) ==
  { k \in DOMAIN routes :
      \/ k = subdomain
      \/ EndsWith(k, << "." >> \o subdomain)
      \/ EndsWith(subdomain, << "." >> \o k) }

\* Decide looking the subdomain up by its trailing labels instead of whole
DecideByTail(target_subdomain, routes, strict) ==
  IF target_subdomain.some /\ TailKeys(target_subdomain.val, routes) # {}
  THEN [outcome |-> "Dispatched",
        invoked |-> << routes[CHOOSE k \in TailKeys(target_subdomain.val, routes) : TRUE] >>,
        target_subdomain |-> target_subdomain]
  ELSE IF target_subdomain.some /\ strict
  THEN [outcome |-> "Rejected", invoked |-> << >>,
        target_subdomain |-> target_subdomain]
  ELSE [outcome |-> "Fallback", invoked |-> << inner >>,
        target_subdomain |-> target_subdomain]

\* lines 161-174: the way the request goes once target_subdomain is known.
\* invoked lists the handlers the request is handed to with oneshot, in order.
Decide(target_subdomain, routes, strict) ==
  IF target_subdomain.some /\ target_subdomain.val \in DOMAIN routes
  THEN [outcome |-> "Dispatched",
        invoked |-> << routes[target_subdomain.val] >>,
        target_subdomain |-> target_subdomain]
  ELSE IF target_subdomain.some /\ strict
  THEN [outcome |-> "Rejected", invoked |-> << >>,
        target_subdomain |-> target_subdomain]
  ELSE [outcome |-> "Fallback", invoked |-> << inner >>,
        target_subdomain |-> target_subdomain]

\* Route with the return of line 163 missing: a dispatched request goes on
\* to the fallback of line 174
RouteFallsThrough(host, routes, strict, known_hosts) ==
  IF host.some
  THEN IF Decide(TargetSubdomain(host.val, known_hosts), routes, strict).outcome
            = "Dispatched"
       THEN [Decide(TargetSubdomain(host.val, known_hosts), routes, strict)
               EXCEPT !.invoked = @ \o << inner >>]
       ELSE Decide(TargetSubdomain(host.val, known_hosts), routes, strict)
  ELSE [outcome |-> "Fallback", invoked |-> << inner >>,
        target_subdomain |-> None]

\* lines 126-174: which way the future goes
Route(host, routes, strict, known_hosts) ==
  IF host.some
  THEN Decide(TargetSubdomain(host.val, known_hosts), routes, strict)
  ELSE [outcome |-> "Fallback", invoked |-> << inner >>,
        target_subdomain |-> None]

-----------------------------------------------------------------------------
(* Bounds and input sets *)

\* requests in flight at once
MaxReqs == 2

\* builder calls (register, strict, known_hosts) made on the layers
MaxCalls == 3

\* labels of a generated host
MaxLabels == 4

\* entries of a generated known-host list
MaxKnown == 2

Requests == 1..MaxReqs

\* the layer built with SubdomainLayer::new() and a clone of it
LayerIds == {"layer", "clone"}

\* the routers handed to register: opaque handlers
Routers == {"api_router", "admin_router"}

api == << "a","p","i" >>

sub_api == << "s","u","b",".","a","p","i" >>

example_com == << "e","x","a","m","p","l","e",".","c","o","m" >>

localhost == << "l","o","c","a","l","h","o","s","t" >>

loopback == << "1","2","7",".","0",".","0",".","1" >>

port == << ":","3","0","0","0" >>

Dot(a, b) == a \o << "." >> \o b

\* every sequence over S of length lo..hi
SeqsOf(S, lo, hi) == UNION { [1..n -> S] : n \in lo..hi }

\* the subdomain keys handed to register
KeyPool == { api, sub_api }

\* every table register can build over KeyPool and Routers
RouteTables == UNION { [K -> Routers] : K \in SUBSET KeyPool }

\* known-host lists of the dispatch and builder runs
KnownHostLists ==
  { << >>, << example_com >>, << Dot(api, example_com), example_com >> }

\* Host headers of the dispatch runs
DispatchHeaders ==
  { AbsentHeader, OpaqueHeader } \cup
  { TextHeader(h) :
      h \in { example_com \o port,
              Dot(api, example_com),
              Dot(api, example_com) \o port,
              Dot(<< "u","n","k","n","o","w","n" >>, example_com),
              Dot(sub_api, example_com),
              Dot(<< "A","P","I" >>, example_com),
              localhost,
              loopback \o port,
              Dot(api, loopback) } }

\* Host header of the builder runs
BuildHeaders == { TextHeader(Dot(api, example_com)) }

\* labels the generated hosts are made of: a plain label, a label that is a
\* top-level domain, digit runs, and the empty label
LabelPool == { << "a" >>, << "a","t" >>, << "1" >>, << "2","2" >>, << >> }

LabelHosts == { Join(ls, << "." >>) : ls \in SeqsOf(LabelPool, 1, MaxLabels) }

\* dotted IPv4 literals
IpPool == { loopback, << "1",".","2","2",".","3",".","4" >> }

\* labels in front of an IPv4 literal
IpHosts ==
  { Dot(Join(ls, << "." >>), ip) :
      ls \in SeqsOf({ api, << "s","u","b" >>, << "a","1" >>, << "1" >> },
                    1, MaxLabels - 2),
      ip \in IpPool }

\* the hosts the specification and the tests name
ExampleHosts ==
  { example_com, Dot(api, example_com), Dot(sub_api, example_com),
    localhost, Dot(api, localhost), loopback, Dot(api, loopback),
    Dot(sub_api, loopback), << "c","o","m" >> }

ExtractHosts == LabelHosts \cup IpHosts \cup ExampleHosts

\* known-host suffixes of the extraction runs
SuffixPool == { << "a","t" >>, << "a",".","a","t" >>, << "t" >> }

SuffixLists == SeqsOf(SuffixPool, 0, MaxKnown)

-----------------------------------------------------------------------------
(* State *)

VARIABLES
  routesArc,   \* the Arc<HashMap<String, Router>> allocations, by address
  hostsArc,    \* the Arc<Vec<String>> allocations, by address
  layers,      \* the SubdomainLayer values
  service,     \* the SubdomainService made by Layer::layer
  reqs,        \* the requests handed to call and their futures
  log          \* per layer, the builder calls made on it, in order

vars == << routesArc, hostsArc, layers, service, reqs, log >>

NoLayer == [live |-> FALSE, routes |-> 0, strict |-> FALSE, known_hosts |-> 0]

NoService == [live |-> FALSE, routes |-> 0, strict |-> FALSE, known_hosts |-> 0]

NoResponse == [status |-> 0, body |-> << >>]

IdleReq ==
  [pc |-> "idle", header |-> AbsentHeader, host |-> None,
   routes |-> 0, strict |-> FALSE, known_hosts |-> 0,
   target_subdomain |-> None, outcome |-> "none",
   invoked |-> << >>, response |-> NoResponse]

EmptyTable == [k \in {} |-> "api_router"]

\* Insert keeping the entry a key already has (entry().or_insert())
InsertIfAbsent(routes, subdomain, router) ==
  [k \in DOMAIN routes \cup {subdomain} |->
     IF k \in DOMAIN routes THEN routes[k] ELSE router]

\* HashMap::insert: the key's entry is added or overwritten
Insert(routes, subdomain, router) ==
  [k \in DOMAIN routes \cup {subdomain} |->
     IF k = subdomain THEN router ELSE routes[k]]

-----------------------------------------------------------------------------
(* The builder: impl SubdomainLayer, lines 33-69, and Clone *)

CallsMade == Len(log["layer"]) + Len(log["clone"])

\* SubdomainLayer::new(): an empty table, strict off, no known hosts
New ==
  /\ routesArc = << EmptyTable >>
  /\ hostsArc = << << >> >>
  /\ layers = [l \in LayerIds |->
                 IF l = "layer"
                 THEN [live |-> TRUE, routes |-> 1, strict |-> FALSE,
                       known_hosts |-> 1]
                 ELSE NoLayer]
  /\ log = [l \in LayerIds |-> << >>]

\* Register inserting into the table behind the shared Arc instead of a copy
RegisterInPlace(l, subdomain, router) ==
  /\ layers[l].live
  /\ Len(log["layer"]) + Len(log["clone"]) < MaxCalls
  /\ routesArc' = [routesArc EXCEPT ![layers[l].routes] =
                     Insert(@, subdomain, router)]
  /\ log' = [log EXCEPT ![l] =
               Append(@, [op |-> "register", key |-> subdomain,
                          router |-> router, flag |-> FALSE, hosts |-> << >>])]
  /\ UNCHANGED << hostsArc, layers, service, reqs >>

\* register: the table is copied, the entry inserted into the copy, and the
\* copy put behind a new Arc
Register(l, subdomain, router) ==
  /\ layers[l].live
  /\ CallsMade < MaxCalls
  /\ routesArc' = Append(routesArc,
                         Insert(routesArc[layers[l].routes], subdomain, router))
  /\ layers' = [layers EXCEPT ![l].routes = Len(routesArc) + 1]
  /\ log' = [log EXCEPT ![l] =
               Append(@, [op |-> "register", key |-> subdomain,
                          router |-> router, flag |-> FALSE, hosts |-> << >>])]
  /\ UNCHANGED << hostsArc, service, reqs >>

Strict(l, strict) ==
  /\ layers[l].live
  /\ CallsMade < MaxCalls
  /\ layers' = [layers EXCEPT ![l].strict = strict]
  /\ log' = [log EXCEPT ![l] =
               Append(@, [op |-> "strict", key |-> << >>,
                          router |-> "", flag |-> strict, hosts |-> << >>])]
  /\ UNCHANGED << routesArc, hostsArc, service, reqs >>

KnownHosts(l, hosts) ==
  /\ layers[l].live
  /\ CallsMade < MaxCalls
  /\ hostsArc' = Append(hostsArc, hosts)
  /\ layers' = [layers EXCEPT ![l].known_hosts = Len(hostsArc) + 1]
  /\ log' = [log EXCEPT ![l] =
               Append(@, [op |-> "known_hosts", key |-> << >>,
                          router |-> "", flag |-> FALSE, hosts |-> hosts])]
  /\ UNCHANGED << routesArc, service, reqs >>

\* #[derive(Clone)]: the clone shares both Arcs with the original
CloneLayer(l, c) ==
  /\ layers[l].live
  /\ ~ layers[c].live
  /\ layers' = [layers EXCEPT ![c] = layers[l]]
  /\ log' = [log EXCEPT ![c] = log[l]]
  /\ UNCHANGED << routesArc, hostsArc, service, reqs >>

\* Layer::layer: the service shares the layer's Arcs and copies its flag
MakeService(l) ==
  /\ layers[l].live
  /\ ~ service.live
  /\ service' = [live |-> TRUE, routes |-> layers[l].routes,
                 strict |-> layers[l].strict,
                 known_hosts |-> layers[l].known_hosts]
  /\ UNCHANGED << routesArc, hostsArc, layers, reqs, log >>

-----------------------------------------------------------------------------
(* SubdomainService::call, lines 112-176 *)

\* lines 113-125: the Arcs and the flag are cloned into the future, the host
\* is read from the header, and the future is returned
Call(r, header) ==
  /\ service.live
  /\ reqs[r].pc = "idle"
  /\ reqs' = [reqs EXCEPT ![r] =
                [IdleReq EXCEPT !.pc = "future", !.header = header,
                                !.host = HostOf(header),
                                !.routes = service.routes,
                                !.strict = service.strict,
                                !.known_hosts = service.known_hosts]]
  /\ UNCHANGED << routesArc, hostsArc, layers, service, log >>

\* the request once the future has gone the way `way`
Settle(q, way) ==
  [q EXCEPT !.target_subdomain = way.target_subdomain,
            !.outcome = way.outcome,
            !.invoked = way.invoked,
            !.pc = IF way.invoked = << >> THEN "done" ELSE "awaiting",
            !.response = IF way.outcome = "Rejected"
                         THEN NotFound ELSE NoResponse]

\* lines 125-174 up to the await: the future is polled, extracts the
\* subdomain and either hands the request to a handler or answers 404
Poll(r) ==
  /\ reqs[r].pc = "future"
  /\ reqs' = [reqs EXCEPT ![r] =
                Settle(reqs[r],
                       Route(reqs[r].host, routesArc[reqs[r].routes],
                             reqs[r].strict, hostsArc[reqs[r].known_hosts]))]
  /\ UNCHANGED << routesArc, hostsArc, layers, service, log >>

\* lines 163 and 174: the handler's response is the future's response
Respond(r) ==
  /\ reqs[r].pc = "awaiting"
  /\ reqs' = [reqs EXCEPT ![r].pc = "done",
                          ![r].response =
                            HandlerResponse(reqs[r].invoked[Len(reqs[r].invoked)])]
  /\ UNCHANGED << routesArc, hostsArc, layers, service, log >>

-----------------------------------------------------------------------------
(* Specifications *)

\* a service whose configuration the builder has frozen
Frozen(routes, strict, known_hosts) ==
  /\ routesArc = << routes >>
  /\ hostsArc = << known_hosts >>
  /\ layers = [l \in LayerIds |-> NoLayer]
  /\ service = [live |-> TRUE, routes |-> 1, strict |-> strict,
                known_hosts |-> 1]
  /\ reqs = [r \in Requests |-> IdleReq]
  /\ log = [l \in LayerIds |-> << >>]

\* Requests served concurrently by one service, any configuration.
Init ==
  \E routes \in RouteTables, strict \in BOOLEAN, known_hosts \in KnownHostLists :
    Frozen(routes, strict, known_hosts)

Next ==
  \/ \E r \in Requests, header \in DispatchHeaders : Call(r, header)
  \/ \E r \in Requests : Poll(r)
  \/ \E r \in Requests : Respond(r)

Spec == Init /\ [][Next]_vars

\* Extraction: one request, hosts and known-host lists generated from labels.
InitExtract ==
  \E known_hosts \in SuffixLists :
    Frozen([k \in { << "a" >> } |-> "api_router"], FALSE, known_hosts)

NextExtract ==
  \/ \E host \in ExtractHosts : Call(1, TextHeader(host))
  \/ \E r \in Requests : Poll(r)
  \/ \E r \in Requests : Respond(r)

SpecExtract == InitExtract /\ [][NextExtract]_vars

\* The builder: calls on a new layer and its clone, before and after layer().
InitBuild ==
  /\ New
  /\ service = NoService
  /\ reqs = [r \in Requests |-> IdleReq]

NextBuild ==
  \/ \E l \in LayerIds, k \in KeyPool, router \in Routers : Register(l, k, router)
  \/ \E l \in LayerIds, strict \in BOOLEAN : Strict(l, strict)
  \/ \E l \in LayerIds, hosts \in KnownHostLists : KnownHosts(l, hosts)
  \/ CloneLayer("layer", "clone")
  \/ \E l \in LayerIds : MakeService(l)
  \/ \E header \in BuildHeaders : Call(1, header)
  \/ \E r \in Requests : Poll(r)
  \/ \E r \in Requests : Respond(r)

SpecBuild == InitBuild /\ [][NextBuild]_vars

-----------------------------------------------------------------------------
(* Properties *)

\* the future of request r has gone one of its ways
Settled(r) == reqs[r].pc \in {"awaiting", "done"}

\* the table and the known hosts the future of request r reads
TableOf(r) == routesArc[reqs[r].routes]

KnownOf(r) == hostsArc[reqs[r].known_hosts]

\* the configuration a layer holds, and the one the service holds
LayerConfig(l) ==
  [routes |-> routesArc[layers[l].routes], strict |-> layers[l].strict,
   known_hosts |-> hostsArc[layers[l].known_hosts]]

ServiceConfig ==
  [routes |-> routesArc[service.routes], strict |-> service.strict,
   known_hosts |-> hostsArc[service.known_hosts]]

\* S ends with H and the character before that H is a '.'
SuffixMatches(S, H) == EndsWith(S, << "." >> \o H)

\* S = X + "." + H for a nonempty X
IsUnder(S, H) == SuffixMatches(S, H) /\ Len(S) >= Len(H) + 2

\* the X of S = X + "." + H
Before(S, H) == SubSeq(S, 1, Len(S) - Len(H) - 1)

\* no suffix of K matches S
NoKnownMatch(S, K) == \A i \in 1..Len(K) : ~ SuffixMatches(S, K[i])

\* the index of the earliest suffix of K that matches S
FirstMatch(S, K) ==
  CHOOSE i \in 1..Len(K) :
    SuffixMatches(S, K[i]) /\ \A j \in 1..(i - 1) : ~ SuffixMatches(S, K[j])

\* C1: every request ends in exactly one of Dispatched, Rejected and
\* Fallback; at most one handler is ever invoked for it, exactly once (none
\* when Rejected); the outcome does not depend on the routers registered, only
\* on the keys, and two requests with the same Host header get the same
\* outcome whatever the other requests do.
C1_OneOutcomeOneHandler ==
  /\ \A r \in Requests :
       /\ Len(reqs[r].invoked) <= 1
       /\ Settled(r) =>
            /\ reqs[r].outcome \in {"Dispatched", "Rejected", "Fallback"}
            /\ reqs[r].outcome = "Rejected" =>
                 reqs[r].invoked = << >> /\ reqs[r].pc = "done"
            /\ reqs[r].outcome = "Fallback" => reqs[r].invoked = << inner >>
            /\ reqs[r].outcome = "Dispatched" =>
                 /\ Len(reqs[r].invoked) = 1
                 /\ \E k \in DOMAIN TableOf(r) :
                      reqs[r].invoked[1] = TableOf(r)[k]
            /\ reqs[r].pc = "done" /\ reqs[r].outcome # "Rejected" =>
                 reqs[r].response = HandlerResponse(reqs[r].invoked[1])
            /\ \A t \in RouteTables :
                 DOMAIN t = DOMAIN TableOf(r) =>
                   Route(reqs[r].host, t, reqs[r].strict, KnownOf(r)).outcome
                     = reqs[r].outcome
  /\ \A r1, r2 \in Requests :
       Settled(r1) /\ Settled(r2) /\ reqs[r1].header = reqs[r2].header =>
         /\ reqs[r1].outcome = reqs[r2].outcome
         /\ reqs[r1].invoked = reqs[r2].invoked

\* two requests with the same Host header, both answered by the same router
C1_Witness ==
  /\ reqs[1].pc = "done" /\ reqs[2].pc = "done"
  /\ reqs[1].header = reqs[2].header
  /\ reqs[1].outcome = "Dispatched"
  /\ reqs[2].response = HandlerResponse(reqs[1].invoked[1])

\* C2: with strict on, a request is Rejected (404, empty body, no handler
\* invoked) exactly when its Host header is present, a subdomain key is
\* extracted and the key is not in the table; with no subdomain (example.com,
\* localhost, 127.0.0.1) or no decodable header it goes to the fallback, and
\* with a registered key to that key's router.
C2_StrictRejectsUnknownKeysOnly ==
  \A r \in Requests :
    Settled(r) /\ reqs[r].strict =>
      /\ reqs[r].outcome = "Rejected" <=>
           /\ reqs[r].host.some
           /\ reqs[r].target_subdomain.some
           /\ reqs[r].target_subdomain.val \notin DOMAIN TableOf(r)
      /\ reqs[r].outcome = "Rejected" =>
           /\ reqs[r].response = NotFound
           /\ reqs[r].invoked = << >>
      /\ reqs[r].header.kind # "text" => ~ reqs[r].host.some
      /\ ~ reqs[r].host.some \/ ~ reqs[r].target_subdomain.some =>
           reqs[r].outcome = "Fallback" /\ reqs[r].invoked = << inner >>
      /\ /\ reqs[r].target_subdomain.some
         /\ reqs[r].target_subdomain.val \in DOMAIN TableOf(r)
         => /\ reqs[r].outcome = "Dispatched"
            /\ reqs[r].invoked = << TableOf(r)[reqs[r].target_subdomain.val] >>
      /\ /\ reqs[r].host.some
         /\ reqs[r].host.val \in {example_com, localhost, loopback}
         /\ NoKnownMatch(reqs[r].host.val, KnownOf(r))
         => reqs[r].outcome = "Fallback"

\* strict on: unknown.example.com answered 404 and example.com:3000 handed to
\* the fallback
C2_Witness ==
  /\ reqs[1].strict /\ reqs[1].pc = "done"
  /\ reqs[1].host = Some(Dot(<< "u","n","k","n","o","w","n" >>, example_com))
  /\ reqs[1].outcome = "Rejected" /\ reqs[1].response = NotFound
  /\ reqs[2].strict /\ reqs[2].pc = "done"
  /\ reqs[2].header = TextHeader(example_com \o port)
  /\ reqs[2].outcome = "Fallback"
  /\ reqs[2].response = HandlerResponse(inner)

\* C3 as stated: with the Host header present and strict on, every request
\* whose resolved subdomain, "none" included, is not a key of the table is
\* Rejected with a 404, an empty body and no handler invoked.
C3_RejectsAbsentSubdomain ==
  \A r \in Requests :
    /\ Settled(r) /\ reqs[r].strict /\ reqs[r].host.some
    /\ \/ ~ reqs[r].target_subdomain.some
       \/ reqs[r].target_subdomain.val \notin DOMAIN TableOf(r)
    => /\ reqs[r].outcome = "Rejected"
       /\ reqs[r].response = NotFound
       /\ reqs[r].invoked = << >>

\* C3 amended: with the Host header present and strict on, every request
\* whose extraction yields a subdomain key that is not in the table is
\* Rejected with a 404, an empty body and no handler invoked; one whose
\* extraction yields no subdomain is handed to the fallback instead.
C3_RejectsUnknownKey ==
  \A r \in Requests :
    Settled(r) /\ reqs[r].strict /\ reqs[r].host.some =>
      /\ /\ reqs[r].target_subdomain.some
         /\ reqs[r].target_subdomain.val \notin DOMAIN TableOf(r)
         => /\ reqs[r].outcome = "Rejected"
            /\ reqs[r].pc = "done"
            /\ reqs[r].response = NotFound
            /\ reqs[r].invoked = << >>
      /\ ~ reqs[r].target_subdomain.some =>
           reqs[r].outcome = "Fallback" /\ reqs[r].invoked = << inner >>

\* strict on, key api registered: sub.api.example.com, whose key sub.api is
\* not in the table, is answered 404
C3_Witness ==
  \E r \in Requests :
    /\ reqs[r].pc = "done" /\ reqs[r].strict
    /\ DOMAIN TableOf(r) = {api}
    /\ reqs[r].target_subdomain = Some(sub_api)
    /\ reqs[r].outcome = "Rejected"
    /\ reqs[r].response = NotFound

\* C4: a request is dispatched to a router if and only if the extracted key
\* equals, whole and case-sensitively, a key of the table, and then to that
\* key's router; key sub.api does not serve extracted api, nor key api
\* extracted sub.api or API; with strict off every other request goes to the
\* fallback and none is rejected.
C4_ExactKeyMatch ==
  \A r \in Requests :
    Settled(r) =>
      /\ reqs[r].outcome = "Dispatched" <=>
           /\ reqs[r].target_subdomain.some
           /\ \E k \in DOMAIN TableOf(r) : k = reqs[r].target_subdomain.val
      /\ reqs[r].outcome = "Dispatched" =>
           reqs[r].invoked = << TableOf(r)[reqs[r].target_subdomain.val] >>
      /\ /\ reqs[r].target_subdomain = Some(api)
         /\ DOMAIN TableOf(r) = {sub_api}
         => reqs[r].outcome # "Dispatched"
      /\ /\ reqs[r].target_subdomain = Some(sub_api)
         /\ DOMAIN TableOf(r) = {api}
         => reqs[r].outcome # "Dispatched"
      /\ reqs[r].target_subdomain = Some(<< "A","P","I" >>) =>
           reqs[r].outcome # "Dispatched"
      /\ ~ reqs[r].strict =>
           /\ reqs[r].outcome # "Rejected"
           /\ reqs[r].outcome # "Dispatched" =>
                reqs[r].outcome = "Fallback" /\ reqs[r].invoked = << inner >>

\* strict off, only key sub.api registered: api.example.com goes to the
\* fallback while sub.api.example.com goes to the router
C4_Witness ==
  /\ reqs[1].pc = "done" /\ reqs[2].pc = "done"
  /\ DOMAIN TableOf(1) = {sub_api} /\ ~ reqs[1].strict
  /\ reqs[1].target_subdomain = Some(api)
  /\ reqs[1].outcome = "Fallback"
  /\ reqs[2].target_subdomain = Some(sub_api)
  /\ reqs[2].outcome = "Dispatched"

\* C5 as stated: for every suffix H of the known-host list and every host
\* S = X + "." + H with X nonempty, the extracted subdomain is exactly X.
C5_EverySuffixDecides ==
  \A r \in Requests :
    Settled(r) /\ reqs[r].host.some =>
      \A i \in 1..Len(KnownOf(r)) :
        IsUnder(reqs[r].host.val, KnownOf(r)[i]) =>
          reqs[r].target_subdomain
            = Some(Before(reqs[r].host.val, KnownOf(r)[i]))

\* C5 amended: for every suffix H of the known-host list and every host
\* S = X + "." + H with X nonempty, the extracted subdomain is exactly X
\* provided no suffix earlier in the list also ends S behind a '.'; the
\* generic extraction has no say, whatever it would give.
C5_FirstSuffixDecides ==
  \A r \in Requests :
    Settled(r) /\ reqs[r].host.some =>
      \A i \in 1..Len(KnownOf(r)) :
        /\ IsUnder(reqs[r].host.val, KnownOf(r)[i])
        /\ \A j \in 1..(i - 1) : ~ SuffixMatches(reqs[r].host.val, KnownOf(r)[j])
        => reqs[r].target_subdomain
             = Some(Before(reqs[r].host.val, KnownOf(r)[i]))

\* a host under the second known host only, whose subdomain is not the one
\* the generic extraction would give
C5_Witness ==
  /\ Settled(1) /\ Len(KnownOf(1)) = 2
  /\ ~ SuffixMatches(reqs[1].host.val, KnownOf(1)[1])
  /\ IsUnder(reqs[1].host.val, KnownOf(1)[2])
  /\ reqs[1].target_subdomain = Some(Before(reqs[1].host.val, KnownOf(1)[2]))
  /\ GenericExtraction(reqs[1].host.val) # reqs[1].target_subdomain

\* C6: the known hosts are tried in the order given: when several end the
\* host behind a '.', the subdomain is the one the earliest of them leaves,
\* and a known host that ends the host without a '.' before it, or that is
\* the whole host, is passed over without stopping the search.
C6_EarliestKnownHostWins ==
  \A r \in Requests :
    /\ Settled(r) /\ reqs[r].host.some
    /\ ~ NoKnownMatch(reqs[r].host.val, KnownOf(r))
    => reqs[r].target_subdomain
         = Some(Before(reqs[r].host.val,
                       KnownOf(r)[FirstMatch(reqs[r].host.val, KnownOf(r))]))

\* two known hosts both match and leave different subdomains; the first one's
\* is extracted
C6_Witness ==
  /\ Settled(1) /\ Len(KnownOf(1)) = 2
  /\ SuffixMatches(reqs[1].host.val, KnownOf(1)[1])
  /\ SuffixMatches(reqs[1].host.val, KnownOf(1)[2])
  /\ Before(reqs[1].host.val, KnownOf(1)[1]) # Before(reqs[1].host.val, KnownOf(1)[2])
  /\ reqs[1].target_subdomain = Some(Before(reqs[1].host.val, KnownOf(1)[1]))

\* a nonempty string of digits
IsDigits(s) == Len(s) > 0 /\ \A i \in 1..Len(s) : IsDigit(s[i])

\* the last four of the parts are digit runs
EndsInIpLiteral(parts) ==
  /\ Len(parts) >= 4
  /\ \A i \in (Len(parts) - 3)..Len(parts) : IsDigits(parts[i])

\* what C7 says of a host split into parts
IpSubdomain(parts) ==
  IF Len(parts) = 4 THEN None
  ELSE Some(Join(SubSeq(parts, 1, Len(parts) - 4), << "." >>))

\* C7: with no known-host match, a host that is a dotted IPv4 literal has no
\* subdomain, and a host made of one or more labels followed by a dotted IPv4
\* literal has those labels, joined by '.', as its subdomain.
C7_LabelsBeforeIpLiteral ==
  \A r \in Requests :
    /\ Settled(r) /\ reqs[r].host.some
    /\ NoKnownMatch(reqs[r].host.val, KnownOf(r))
    /\ EndsInIpLiteral(Split(reqs[r].host.val, "."))
    /\ \A i \in 1..Len(Split(reqs[r].host.val, ".")) :
         Split(reqs[r].host.val, ".")[i] # << >>
    => reqs[r].target_subdomain = IpSubdomain(Split(reqs[r].host.val, "."))

\* index of the last '.' of s at or before i, 0 if none
RECURSIVE LastDot(_, _)
LastDot(s, i) ==
  IF i = 0 THEN 0
  ELSE IF s[i] = "." THEN i
  ELSE LastDot(s, i - 1)

\* the text before the last '.' of s, if s has one
BeforeLastDot(s) ==
  IF LastDot(s, Len(s)) = 0 THEN None
  ELSE Some(SubSeq(s, 1, LastDot(s, Len(s)) - 1))

\* The reference algorithm of C8 on the host's text: the last label is
\* dropped if and only if it is a known TLD, and the subdomain is what stands
\* before the last '.' of what remains.
ReferenceSubdomain(s) ==
  IF SubSeq(s, LastDot(s, Len(s)) + 1, Len(s)) \in KNOWN_TLDS
  THEN IF LastDot(s, Len(s)) = 0 THEN None
       ELSE BeforeLastDot(SubSeq(s, 1, LastDot(s, Len(s)) - 1))
  ELSE BeforeLastDot(s)

\* s holds four dot-separated digit runs somewhere
HasIpRun(s) == \E i \in 1..Len(s) : GroupEnds(s, i, 4) # << >>

\* C8: with no known-host match and no IPv4-literal run in the host, the
\* extraction is the reference algorithm: the last label is dropped if and
\* only if it is a known TLD, only that one label, and the subdomain is every
\* remaining label but the last, none when fewer than two remain.
C8_GenericIsReference ==
  \A r \in Requests :
    /\ Settled(r) /\ reqs[r].host.some
    /\ NoKnownMatch(reqs[r].host.val, KnownOf(r))
    /\ ~ HasIpRun(reqs[r].host.val)
    => /\ reqs[r].target_subdomain = ReferenceSubdomain(reqs[r].host.val)
       /\ reqs[r].host.val \in {example_com, localhost, << "c","o","m" >>} =>
            reqs[r].target_subdomain = None
       /\ reqs[r].host.val \in {Dot(api, example_com), Dot(api, localhost)} =>
            reqs[r].target_subdomain = Some(api)
       /\ reqs[r].host.val = Dot(sub_api, example_com) =>
            reqs[r].target_subdomain = Some(sub_api)

\* a.at.at: only the last label is dropped, the TLD before it is the apex
C8_Witness ==
  /\ Settled(1) /\ KnownOf(1) = << >>
  /\ reqs[1].host = Some(<< "a",".","a","t",".","a","t" >>)
  /\ reqs[1].target_subdomain = Some(<< "a" >>)

\* C9: once layer() has made the service, its table, flag and known hosts
\* never change, whatever is called on the layer or its clone and however
\* many requests are handled; and a call on one layer changes nothing the
\* other layer holds.
C9_ServiceConfigFrozen ==
  [][ /\ service.live => service'.live /\ ServiceConfig' = ServiceConfig
      /\ \A l \in LayerIds :
           layers[l].live /\ log'[l] = log[l] =>
             layers'[l].live /\ LayerConfig(l)' = LayerConfig(l)
    ]_vars

\* the layer registered api again after layer(); a request handled after that
\* still went to the router the service was made with
C9_Witness ==
  /\ service.live /\ layers["clone"].live
  /\ layers["layer"].routes > service.routes
  /\ LayerConfig("layer").routes = [k \in {api} |-> "admin_router"]
  /\ LayerConfig("clone").routes = [k \in {api} |-> "api_router"]
  /\ ServiceConfig.routes = [k \in {api} |-> "api_router"]
  /\ reqs[1].pc = "done"
  /\ reqs[1].invoked = << "api_router" >>

\* the calls of a log that are op calls for key
CallsOf(lg, op, key) ==
  { i \in 1..Len(lg) : lg[i].op = op /\ lg[i].key = key }

\* the most recent of them
LastCall(lg, op, key) ==
  CHOOSE i \in CallsOf(lg, op, key) : \A j \in CallsOf(lg, op, key) : j <= i

\* the last-writer-wins configuration of a log of builder calls
LastWriterWins(lg) ==
  [routes |->
     [k \in { lg[i].key : i \in { j \in 1..Len(lg) : lg[j].op = "register" } }
        |-> lg[LastCall(lg, "register", k)].router],
   strict |->
     IF CallsOf(lg, "strict", << >>) = {} THEN FALSE
     ELSE lg[LastCall(lg, "strict", << >>)].flag,
   known_hosts |->
     IF CallsOf(lg, "known_hosts", << >>) = {} THEN << >>
     ELSE lg[LastCall(lg, "known_hosts", << >>)].hosts]

\* C10: after any sequence of register, strict and known_hosts calls on a new
\* layer, the table holds exactly the registered keys, each with the router
\* of its most recent register; the flag is the argument of the most recent
\* strict, false if none; the known hosts are the argument of the most recent
\* known_hosts, empty if none.
C10_LastWriterWins ==
  \A l \in LayerIds :
    layers[l].live => LayerConfig(l) = LastWriterWins(log[l])

\* strict(true), then api registered twice: the second router is kept, the
\* flag is still on and the known hosts still empty
C10_Witness ==
  /\ Len(log["layer"]) = 3
  /\ log["layer"][1].op = "strict" /\ log["layer"][1].flag
  /\ log["layer"][2].op = "register" /\ log["layer"][2].router = "api_router"
  /\ log["layer"][3].op = "register" /\ log["layer"][3].router = "admin_router"
  /\ log["layer"][2].key = api /\ log["layer"][3].key = api
  /\ LayerConfig("layer") =
       [routes |-> [k \in {api} |-> "admin_router"], strict |-> TRUE,
        known_hosts |-> << >>]

=============================================================================
